---- MODULE Spec2Model ----
(***************************************************************************)
(* Model of the deck-aligner card collection manager (lib/cardManager.ts): *)
(* the live collection, the selected/discarded id sets, and the bounded    *)
(* snapshot history with its cursor; of the batch processor                *)
(* (lib/batchProcessor.ts) with the OpenCV buffers its pipeline allocates; *)
(* of the worker pool (useWebWorker); of the composite sheet generator     *)
(* (lib/compositeGenerator.ts) and of the card detector's contour filter   *)
(* (lib/cardDetector.ts).                                                  *)
(***************************************************************************)
EXTENDS Integers, Sequences, FiniteSets, TLC

\* ------------------------------------------------------------------ bounds
MaxCards == 2
MaxDepth == 3
NumMutations == 60
MaxFiles == 2
MaxTasks == 4
MaxSheetCards == 7
MaxContours == 2
MaxCoord == 2
MaxZipImages == 2
MaxZipCards == 3

\* useWebWorker option maxWorkers (default navigator.hardwareConcurrency || 4)
maxWorkers == 2

\* ------------------------------------------------------- program constants
\* cardManager.ts: "Limit history to 50 states"
MaxHistory == 50

VARIABLES
  cards,          \* CardManager.cards: sequence of ManagedCard records
  selectedIds,    \* CardManager.selectedIds
  discardedIds,   \* CardManager.discardedIds
  history,        \* CardManager.history: sequence of CardCollectionState
  historyIndex,   \* CardManager.historyIndex (0-based cursor, -1 when empty)
  ret,            \* outcome of the last call: "void", TRUE/FALSE as strings, "throw"
  lastOp,         \* name of the last operation called
  opBefore,       \* kind of the call made before the last one: "mutation", "undo" (successful) or "other"
  prev,           \* live state just before the last call
  loaded,         \* TRUE once loadFromImages was called since construction or the last cleanup
  nMut,           \* sixty-mutation scenario: mutations performed since the load
  nUndo,          \* sixty-mutation scenario: undo() calls made in succession after them
  heap,           \* every ProcessedImage object addImages created, in creation order
  batchImages,    \* BatchProcessor.images: references (indices into heap)
  isProcessing,   \* BatchProcessor.isProcessing
  runs,           \* processAll calls suspended at `await loadImageFromFile(file)`
  mats,           \* every cv.Mat allocated by the pipeline: its kind and how often delete() was called
  nFiles,         \* File objects handed over by the uploader so far
  app,            \* which page drives the batch processor: "vanilla", "vue", or "none" before the first upload
  workers,        \* useWebWorker.workers: per worker, the tasks posted to it and not yet answered, and the tasks whose listeners are attached to it
  taskQueue,      \* useWebWorker.taskQueue (task numbers)
  activeTasks,    \* useWebWorker.activeTasks
  totalTasks,     \* useWebWorker.totalTasks
  completedTasks, \* useWebWorker.completedTasks
  failedTasks,    \* useWebWorker.failedTasks
  poolIsProcessing, \* useWebWorker.isProcessing
  settled,        \* per task submitted with runTask: one entry per call of its resolve or reject, naming the task whose reply made the call (0: no reply, "No workers available")
  genArgs,        \* arguments of the last generateComposite call
  genResult,      \* what that call did and returned
  detArgs,        \* arguments of the last detectCards call
  detResult,      \* what that call returned
  libArgs,        \* the last call of orderCorners, extractCard or downloadAllCardsAsZip: its name and arguments
  libResult       \* what that call returned

\* the fields of CardManager, with the record of its last call
CardVars == <<cards, selectedIds, discardedIds, history, historyIndex,
              ret, lastOp, opBefore, prev, loaded>>

\* the fields of BatchProcessor, its suspended runs and the buffers
BatchVars == <<heap, batchImages, isProcessing, runs, mats, nFiles, app>>

\* the refs of the worker pool, with the workers' side of the channel
PoolVars == <<workers, taskQueue, activeTasks, totalTasks, completedTasks,
              failedTasks, poolIsProcessing, settled>>

SheetVars == <<genArgs, genResult>>

DetectVars == <<detArgs, detResult>>

LibVars == <<libArgs, libResult>>

vars == <<cards, selectedIds, discardedIds, history, historyIndex,
          ret, lastOp, opBefore, prev, loaded, nMut, nUndo,
          heap, batchImages, isProcessing, runs, mats, nFiles, app,
          workers, taskQueue, activeTasks, totalTasks, completedTasks,
          failedTasks, poolIsProcessing, settled,
          genArgs, genResult, detArgs, detResult, libArgs, libResult>>

\* ------------------------------------------------------------ id formatting
RECURSIVE Digits(_)
Digits(n) == IF n < 10 THEN <<n>> ELSE Digits(n \div 10) \o <<n % 10>>

RECURSIVE Zeros(_)
Zeros(k) == IF k <= 0 THEN <<>> ELSE <<0>> \o Zeros(k - 1)

\* String(n).padStart(w, "0"): pads on the left, never truncates
PadStart(n, w) == Zeros(w - Len(Digits(n))) \o Digits(n)

\* batchProcessor.addImages: `img_${String(k).padStart(3, "0")}`
ImageId(k) == <<"img_">> \o PadStart(k, 3)

\* `${image.id}_card_${String(cardIndex + 1).padStart(2, "0")}`
GlobalId(imageId, cardIndex) == imageId \o <<"_card_">> \o PadStart(cardIndex + 1, 2)

\* ------------------------------------------------------------------ inputs
\* Rectified card images are outputWidth x outputHeight or swapped; a third
\* size stands for a batch extracted with other output dimensions.
CardDims == << [cols |-> 750, rows |-> 1050],
               [cols |-> 1050, rows |-> 750],
               [cols |-> 600, rows |-> 840] >>

DimsOf(k) == CardDims[(k % Len(CardDims)) + 1]

\* The batch queue holds two images: the first yields all cards but one, the
\* second yields one card.
CardsIn(k) == IF k = 1 THEN MaxCards - 1 ELSE 1

RECURSIVE CardsBefore(_)
CardsBefore(k) == IF k <= 1 THEN 0 ELSE CardsBefore(k - 1) + CardsIn(k - 1)

\* the collection specifications do not follow the buffers: their card images
\* carry the handle 0, which is no entry of mats
Image(k) ==
  [id |-> ImageId(k),
   extractedCards |-> [j \in 1..CardsIn(k) |->
                         [image |-> 0,
                          cols |-> DimsOf(CardsBefore(k) + j - 1).cols,
                          rows |-> DimsOf(CardsBefore(k) + j - 1).rows]]]

\* loadFromImages receives the queue as it stands: its first image, or both
LoadInputs == { [k \in 1..n |-> Image(k)] : n \in 1..2 }

ArgIds == { GlobalId(ImageId(k), j) : k \in 1..2, j \in 0..(MaxCards - 2) }
            \cup { GlobalId(ImageId(999), 0) }

\* id lists passed by the callers: none, one id (a click), or every id at once
IdLists == { {} } \cup { {id} : id \in ArgIds } \cup { ArgIds }

Indices == (-1)..MaxCards

Criteria == {"position", "source", "size", "aspectRatio"}

\* ------------------------------------------------------------ live state
MutationNames == {"selectCards", "deselectCards", "selectAll", "deselectAll",
                  "discardCards", "restoreCards", "reorderCards", "sortCards"}

KindOf(name, r) ==
  IF name \in MutationNames THEN "mutation"
  ELSE IF name = "undo" /\ r = "true" THEN "undo"
  ELSE "other"

Live == [cards |-> cards, selectedIds |-> selectedIds, discardedIds |-> discardedIds]

\* getCards(includeDiscarded)
getCards(cs, includeDiscarded) ==
  IF includeDiscarded THEN cs ELSE SelectSeq(cs, LAMBDA c : ~c.isDiscarded)

\* getSelectedCards()
getSelectedCards(cs) == SelectSeq(cs, LAMBDA c : c.isSelected /\ ~c.isDiscarded)

\* indices (1-based, into cs) of the non-discarded cards, in array order:
\* the object references held by the array getCards(false) returns
RECURSIVE ActiveRefs(_, _)
ActiveRefs(cs, i) ==
  IF i > Len(cs) THEN <<>>
  ELSE (IF cs[i].isDiscarded THEN <<>> ELSE <<i>>) \o ActiveRefs(cs, i + 1)


\* getStats(), without canUndo / canRedo
getStats ==
  [total |-> Len(cards),
   active |-> Len(SelectSeq(cards, LAMBDA c : ~c.isDiscarded)),
   selected |-> Cardinality(selectedIds),
   discarded |-> Cardinality(discardedIds)]
\* ------------------------------------------------------------ loadFromImages
RECURSIVE LoadCards(_, _, _)
LoadCards(images, k, position) ==
  IF k > Len(images) THEN <<>>
  ELSE LET img == images[k]
           n == Len(img.extractedCards)
       IN [j \in 1..n |->
             [image |-> img.extractedCards[j].image,
              globalId |-> GlobalId(img.id, j - 1),
              sourceImageId |-> img.id,
              cols |-> img.extractedCards[j].cols,
              rows |-> img.extractedCards[j].rows,
              isSelected |-> FALSE,
              isDiscarded |-> FALSE,
              customPosition |-> position + j - 1]]
          \o LoadCards(images, k + 1, position + n)

\* ------------------------------------------------------------ saveState
\* saveState whose history limit forgets to move the cursor back
saveStateNoDecrement(cs, sel, dis) ==
  LET h1 == IF historyIndex < Len(history) - 1
            THEN SubSeq(history, 1, historyIndex + 1)
            ELSE history
      h2 == Append(h1, [cards |-> cs, selectedIds |-> sel, discardedIds |-> dis])
      i2 == historyIndex + 1
  IN IF Len(h2) > MaxHistory
     THEN [history |-> Tail(h2), historyIndex |-> i2]
     ELSE [history |-> h2, historyIndex |-> i2]

\* saveState that already evicts when the limit is reached
saveStateEarlyLimit(cs, sel, dis) ==
  LET h1 == IF historyIndex < Len(history) - 1
            THEN SubSeq(history, 1, historyIndex + 1)
            ELSE history
      h2 == Append(h1, [cards |-> cs, selectedIds |-> sel, discardedIds |-> dis])
      i2 == historyIndex + 1
  IN IF Len(h2) >= MaxHistory
     THEN [history |-> Tail(h2), historyIndex |-> i2 - 1]
     ELSE [history |-> h2, historyIndex |-> i2]

saveState(cs, sel, dis) ==
  LET h1 == IF historyIndex < Len(history) - 1
            THEN SubSeq(history, 1, historyIndex + 1)
            ELSE history
      h2 == Append(h1, [cards |-> cs, selectedIds |-> sel, discardedIds |-> dis])
      i2 == historyIndex + 1
  IN IF Len(h2) > MaxHistory
     THEN [history |-> Tail(h2), historyIndex |-> i2 - 1]
     ELSE [history |-> h2, historyIndex |-> i2]

\* A call that ran to its trailing saveState()
Saved(name, cs, sel, dis) ==
  /\ cards' = cs
  /\ selectedIds' = sel
  /\ discardedIds' = dis
  /\ history' = saveState(cs, sel, dis).history
  /\ historyIndex' = saveState(cs, sel, dis).historyIndex
  /\ ret' = "void"
  /\ lastOp' = name
  /\ opBefore' = KindOf(lastOp, ret)
  /\ prev' = Live

\* A call that returned without touching anything but its result
Returned(name, r) ==
  /\ ret' = r
  /\ lastOp' = name
  /\ opBefore' = KindOf(lastOp, ret)
  /\ prev' = Live
  /\ UNCHANGED <<cards, selectedIds, discardedIds, history, historyIndex>>

\* cards.find((c) => c.globalId === id): 1-based index of the first match, 0 if none
RECURSIVE FindFrom(_, _, _)
FindFrom(cs, id, i) ==
  IF i > Len(cs) THEN 0
  ELSE IF cs[i].globalId = id THEN i ELSE FindFrom(cs, id, i + 1)

Find(cs, id) == FindFrom(cs, id, 1)

\* ------------------------------------------------------------ operations
LoadFromImages(images) ==
  /\ Saved("loadFromImages", LoadCards(images, 1, 0), selectedIds, discardedIds)
  /\ loaded' = TRUE

\* selectCards without the `!card.isDiscarded` test
SelectCardsAnyCard(cardIds) ==
  LET hit(id) == Find(cards, id) # 0
  IN /\ Saved("selectCards",
              [i \in 1..Len(cards) |->
                 IF \E id \in cardIds : hit(id) /\ Find(cards, id) = i
                 THEN [cards[i] EXCEPT !.isSelected = TRUE]
                 ELSE cards[i]],
              selectedIds \cup { id \in cardIds : hit(id) },
              discardedIds)
     /\ UNCHANGED loaded

SelectCards(cardIds) ==
  LET hit(id) == Find(cards, id) # 0 /\ ~cards[Find(cards, id)].isDiscarded
  IN /\ Saved("selectCards",
              [i \in 1..Len(cards) |->
                 IF \E id \in cardIds : hit(id) /\ Find(cards, id) = i
                 THEN [cards[i] EXCEPT !.isSelected = TRUE]
                 ELSE cards[i]],
              selectedIds \cup { id \in cardIds : hit(id) },
              discardedIds)
     /\ UNCHANGED loaded

DeselectCards(cardIds) ==
  LET hit(id) == Find(cards, id) # 0
  IN /\ Saved("deselectCards",
              [i \in 1..Len(cards) |->
                 IF \E id \in cardIds : hit(id) /\ Find(cards, id) = i
                 THEN [cards[i] EXCEPT !.isSelected = FALSE]
                 ELSE cards[i]],
              selectedIds \ { id \in cardIds : hit(id) },
              discardedIds)
     /\ UNCHANGED loaded

SelectAll ==
  /\ Saved("selectAll",
           [i \in 1..Len(cards) |->
              IF ~cards[i].isDiscarded
              THEN [cards[i] EXCEPT !.isSelected = TRUE]
              ELSE cards[i]],
           selectedIds \cup { cards[i].globalId : i \in { j \in 1..Len(cards) : ~cards[j].isDiscarded } },
           discardedIds)
  /\ UNCHANGED loaded

DeselectAll ==
  /\ Saved("deselectAll",
           [i \in 1..Len(cards) |-> [cards[i] EXCEPT !.isSelected = FALSE]],
           {},
           discardedIds)
  /\ UNCHANGED loaded

\* discardCards without `card.isSelected = false`
DiscardCardsKeepSelection(cardIds) ==
  LET hit(id) == Find(cards, id) # 0
  IN /\ Saved("discardCards",
              [i \in 1..Len(cards) |->
                 IF \E id \in cardIds : hit(id) /\ Find(cards, id) = i
                 THEN [cards[i] EXCEPT !.isDiscarded = TRUE]
                 ELSE cards[i]],
              selectedIds \ { id \in cardIds : hit(id) },
              discardedIds \cup { id \in cardIds : hit(id) })
     /\ UNCHANGED loaded

DiscardCards(cardIds) ==
  LET hit(id) == Find(cards, id) # 0
  IN /\ Saved("discardCards",
              [i \in 1..Len(cards) |->
                 IF \E id \in cardIds : hit(id) /\ Find(cards, id) = i
                 THEN [cards[i] EXCEPT !.isDiscarded = TRUE, !.isSelected = FALSE]
                 ELSE cards[i]],
              selectedIds \ { id \in cardIds : hit(id) },
              discardedIds \cup { id \in cardIds : hit(id) })
     /\ UNCHANGED loaded

RestoreCards(cardIds) ==
  LET hit(id) == Find(cards, id) # 0
  IN /\ Saved("restoreCards",
              [i \in 1..Len(cards) |->
                 IF \E id \in cardIds : hit(id) /\ Find(cards, id) = i
                 THEN [cards[i] EXCEPT !.isDiscarded = FALSE]
                 ELSE cards[i]],
              selectedIds,
              discardedIds \ { id \in cardIds : hit(id) })
     /\ UNCHANGED loaded

\* Array.prototype.splice start normalisation
SpliceStart(start, len) ==
  IF start < 0 THEN (IF len + start < 0 THEN 0 ELSE len + start)
  ELSE (IF start > len THEN len ELSE start)

\* activeCards after the two splices of reorderCards; 0 stands for `undefined`
MovedRefs(refs, fromIndex, toIndex) ==
  LET s1 == SpliceStart(fromIndex, Len(refs))
      movedCard == IF s1 < Len(refs) THEN refs[s1 + 1] ELSE 0
      rest == SubSeq(refs, 1, s1) \o SubSeq(refs, s1 + 2, Len(refs))
      s2 == SpliceStart(toIndex, Len(rest))
  IN SubSeq(rest, 1, s2) \o <<movedCard>> \o SubSeq(rest, s2 + 1, Len(rest))

\* number of leading elements the forEach visits before it meets `undefined`
RECURSIVE Visited(_, _)
Visited(refs, i) ==
  IF i > Len(refs) \/ refs[i] = 0 THEN i - 1 ELSE Visited(refs, i + 1)

\* activeCards.forEach((card, index) => { card.customPosition = index })
\* applied to the first k elements of refs
AssignPositions(cs, refs, k) ==
  [i \in 1..Len(cs) |->
     IF \E p \in 1..k : refs[p] = i
     THEN [cs[i] EXCEPT !.customPosition = (CHOOSE p \in 1..k : refs[p] = i) - 1]
     ELSE cs[i]]

ReorderCards(fromIndex, toIndex) ==
  LET moved == MovedRefs(ActiveRefs(cards, 1), fromIndex, toIndex)
      k == Visited(moved, 1)
      cs == AssignPositions(cards, moved, k)
  IN /\ IF k = Len(moved)
        THEN Saved("reorderCards", cs, selectedIds, discardedIds)
        ELSE \* TypeError on `undefined.customPosition`: saveState() is never reached
             /\ cards' = cs
             /\ ret' = "throw"
             /\ lastOp' = "reorderCards"
             /\ opBefore' = KindOf(lastOp, ret)
             /\ prev' = Live
             /\ UNCHANGED <<selectedIds, discardedIds, history, historyIndex>>
     /\ UNCHANGED loaded

\* String.prototype.localeCompare on two image ids: character by character
RECURSIVE LexLess(_, _, _)
LexLess(a, b, i) ==
  IF i > Len(a) THEN i <= Len(b)
  ELSE IF i > Len(b) THEN FALSE
  ELSE IF a[i] = b[i] THEN LexLess(a, b, i + 1)
  ELSE a[i] < b[i]

\* comparator(a, b) < 0 for each criterion
CompareLess(criteria, a, b) ==
  CASE criteria = "position" -> a.customPosition < b.customPosition
    [] criteria = "source" -> LexLess(Tail(a.sourceImageId), Tail(b.sourceImageId), 1)
    [] criteria = "size" -> a.cols * a.rows < b.cols * b.rows
    [] criteria = "aspectRatio" -> a.rows * b.cols < b.rows * a.cols

\* Array.prototype.sort is stable: insert x after every element not greater than it
\* an unstable sort: x is inserted before the elements equal to it
RECURSIVE InsertSortedUnstable(_, _, _, _)
InsertSortedUnstable(cs, criteria, sorted, x) ==
  IF sorted = <<>> THEN <<x>>
  ELSE IF ~CompareLess(criteria, cs[Head(sorted)], cs[x])
       THEN <<x>> \o sorted
       ELSE <<Head(sorted)>> \o InsertSortedUnstable(cs, criteria, Tail(sorted), x)

RECURSIVE InsertSorted(_, _, _, _)
InsertSorted(cs, criteria, sorted, x) ==
  IF sorted = <<>> THEN <<x>>
  ELSE IF CompareLess(criteria, cs[x], cs[Head(sorted)])
       THEN <<x>> \o sorted
       ELSE <<Head(sorted)>> \o InsertSorted(cs, criteria, Tail(sorted), x)

RECURSIVE SortRefs(_, _, _, _)
SortRefs(cs, criteria, refs, n) ==
  IF n = 0 THEN <<>>
  ELSE InsertSorted(cs, criteria, SortRefs(cs, criteria, refs, n - 1), refs[n])

SortCards(criteria) ==
  LET refs == ActiveRefs(cards, 1)
      sorted == SortRefs(cards, criteria, refs, Len(refs))
  IN /\ Saved("sortCards", AssignPositions(cards, sorted, Len(sorted)), selectedIds, discardedIds)
     /\ UNCHANGED loaded

\* restoreState(this.history[this.historyIndex])
Restored(name, i) ==
  /\ historyIndex' = i
  /\ cards' = history[i + 1].cards
  /\ selectedIds' = history[i + 1].selectedIds
  /\ discardedIds' = history[i + 1].discardedIds
  /\ ret' = "true"
  /\ lastOp' = name
  /\ opBefore' = KindOf(lastOp, ret)
  /\ prev' = Live
  /\ UNCHANGED history

\* undo that clamps at the oldest snapshot instead of refusing
UndoClamped ==
  /\ IF historyIndex >= 0
     THEN Restored("undo", IF historyIndex > 0 THEN historyIndex - 1 ELSE 0)
     ELSE Returned("undo", "false")
  /\ UNCHANGED loaded

Undo ==
  /\ IF historyIndex > 0
     THEN Restored("undo", historyIndex - 1)
     ELSE Returned("undo", "false")
  /\ UNCHANGED loaded

Redo ==
  /\ IF historyIndex < Len(history) - 1
     THEN Restored("redo", historyIndex + 1)
     ELSE Returned("redo", "false")
  /\ UNCHANGED loaded

\* mat.delete() on every handle of hs; a handle that is no entry of ms is not followed
Release(ms, hs) ==
  [h \in DOMAIN ms |-> IF h \in hs THEN [ms[h] EXCEPT !.rel = @ + 1] ELSE ms[h]]

\* cleanup() when the buffers stand as ms
CleanupFrom(ms) ==
  /\ mats' = Release(ms, { cards[i].image : i \in 1..Len(cards) })
  /\ cards' = <<>>
  /\ selectedIds' = {}
  /\ discardedIds' = {}
  /\ history' = <<>>
  /\ historyIndex' = -1
  /\ ret' = "void"
  /\ lastOp' = "cleanup"
  /\ opBefore' = KindOf(lastOp, ret)
  /\ prev' = Live
  /\ loaded' = FALSE

Cleanup ==
  /\ CleanupFrom(mats)
  /\ UNCHANGED <<heap, batchImages, isProcessing, runs, nFiles, app>>

\* ------------------------------------------------------------ specification
Init ==
  /\ cards = <<>>
  /\ selectedIds = {}
  /\ discardedIds = {}
  /\ history = <<>>
  /\ historyIndex = -1
  /\ ret = "void"
  /\ lastOp = "new"
  /\ opBefore = "other"
  /\ prev = [cards |-> <<>>, selectedIds |-> {}, discardedIds |-> {}]
  /\ loaded = FALSE
  /\ nMut = 0
  /\ nUndo = 0
  /\ heap = <<>>
  /\ batchImages = <<>>
  /\ isProcessing = FALSE
  /\ runs = <<>>
  /\ mats = <<>>
  /\ nFiles = 0
  /\ app = "none"
  /\ workers = <<>>
  /\ taskQueue = <<>>
  /\ activeTasks = 0
  /\ totalTasks = 0
  /\ completedTasks = 0
  /\ failedTasks = 0
  /\ poolIsProcessing = FALSE
  /\ settled = <<>>
  /\ genArgs = [called |-> FALSE]
  /\ genResult = [ret |-> "none"]
  /\ detArgs = [called |-> FALSE]
  /\ detResult = [totalContours |-> 0]
  /\ libArgs = [fn |-> "none"]
  /\ libResult = [fn |-> "none"]

\* the exploration stops recording once MaxDepth snapshots are stored
Room == Len(history) < MaxDepth

\* the counters of the sixty-mutation scenario stand still elsewhere, and a
\* call on the card manager leaves the other modules alone
Idle ==
  /\ UNCHANGED <<nMut, nUndo>>
  /\ UNCHANGED BatchVars
  /\ UNCHANGED <<PoolVars, SheetVars, DetectVars, LibVars>>

Next ==
  \/ \E images \in LoadInputs : Room /\ LoadFromImages(images) /\ Idle
  \/ \E ids \in IdLists : Room /\ SelectCards(ids) /\ Idle
  \/ \E ids \in IdLists : Room /\ DeselectCards(ids) /\ Idle
  \/ Room /\ SelectAll /\ Idle
  \/ Room /\ DeselectAll /\ Idle
  \/ \E ids \in IdLists : Room /\ DiscardCards(ids) /\ Idle
  \/ \E ids \in IdLists : Room /\ RestoreCards(ids) /\ Idle
  \/ \E f \in Indices, t \in Indices : Room /\ ReorderCards(f, t) /\ Idle
  \/ \E c \in Criteria : Room /\ SortCards(c) /\ Idle
  \/ Undo /\ Idle
  \/ Redo /\ Idle
  \/ Cleanup /\ Idle

Spec == Init /\ [][Next]_vars

\* ---------------------------------------------------------------------------
\* Long sessions: one loaded collection whose selection is toggled as a whole,
\* so that the history fills up to MaxHistory and evicts.
NoneSelected == \A i \in 1..Len(cards) : ~cards[i].isSelected

LongLoad == \E images \in LoadInputs : history = <<>> /\ LoadFromImages(images) /\ Idle

LongSelectAll == history # <<>> /\ NoneSelected /\ SelectAll /\ Idle

LongDeselectAll == history # <<>> /\ ~NoneSelected /\ DeselectAll /\ Idle

\* fromIndex past the end of the active view, toIndex 0: throws on the first element
LongReorderOutside == history # <<>> /\ ReorderCards(MaxCards, 0) /\ Idle

LongUndo == Undo /\ Idle

LongRedo == Redo /\ Idle

LongCleanup == Cleanup /\ Idle

NextLong ==
  \/ LongLoad
  \/ LongSelectAll
  \/ LongDeselectAll
  \/ LongReorderOutside
  \/ LongUndo
  \/ LongRedo
  \/ LongCleanup

SpecLong == Init /\ [][NextLong]_vars


\* ---------------------------------------------------------------------------
\* Ordering sessions: one loaded collection that is discarded from, restored
\* to, reordered with indices inside the active view (as the drag-and-drop
\* gallery produces them) and sorted; no call throws.
OrderRoom == Len(history) < MaxDepth + 1

OrderLoad ==
  \E images \in LoadInputs : history = <<>> /\ LoadFromImages(images) /\ Idle

OrderDiscard == \E ids \in IdLists : OrderRoom /\ loaded /\ DiscardCards(ids) /\ Idle

OrderRestore == \E ids \in IdLists : OrderRoom /\ loaded /\ RestoreCards(ids) /\ Idle

OrderReorder ==
  \E f \in Indices, t \in Indices :
    /\ OrderRoom
    /\ f >= 0 /\ f < Len(ActiveRefs(cards, 1))
    /\ t >= 0 /\ t < Len(ActiveRefs(cards, 1))
    /\ ReorderCards(f, t)
    /\ Idle

OrderSort == \E c \in Criteria : OrderRoom /\ loaded /\ SortCards(c) /\ Idle

OrderUndo == Undo /\ Idle

OrderRedo == Redo /\ Idle

NextOrder ==
  \/ OrderLoad
  \/ OrderDiscard
  \/ OrderRestore
  \/ OrderReorder
  \/ OrderSort
  \/ OrderUndo
  \/ OrderRedo

SpecOrder == Init /\ [][NextOrder]_vars
\* ---------------------------------------------------------------------------
\* The sixty-mutation scenario: load, NumMutations mutations in a row, then
\* undo() again and again.
SixtyLoad ==
  /\ history = <<>>
  /\ \E images \in LoadInputs : LoadFromImages(images)
  /\ UNCHANGED <<nMut, nUndo>>
  /\ UNCHANGED BatchVars
  /\ UNCHANGED <<PoolVars, SheetVars, DetectVars, LibVars>>

SixtyMutate ==
  /\ history # <<>>
  /\ nMut < NumMutations
  /\ nUndo = 0
  /\ IF NoneSelected THEN SelectAll ELSE DeselectAll
  /\ nMut' = nMut + 1
  /\ UNCHANGED nUndo
  /\ UNCHANGED BatchVars
  /\ UNCHANGED <<PoolVars, SheetVars, DetectVars, LibVars>>

SixtyUndo ==
  /\ nMut = NumMutations
  /\ nUndo < MaxHistory + 2
  /\ Undo
  /\ nUndo' = nUndo + 1
  /\ UNCHANGED nMut
  /\ UNCHANGED BatchVars
  /\ UNCHANGED <<PoolVars, SheetVars, DetectVars, LibVars>>

NextSixty == SixtyLoad \/ SixtyMutate \/ SixtyUndo

SpecSixty == Init /\ [][NextSixty]_vars


\* ---------------------------------------------------------------------------
\* Batch processor (lib/batchProcessor.ts) with its two callers: the vanilla
\* page (handleBatchUpload, resetBatch) and the Vue view (useBatchProcessor,
\* handleFilesSelected).  A File is named by its number in upload order; 0
\* stands for `undefined` (an index past the end of the files array) and for
\* a null Mat reference.

\* addImages: the entry built from one file
NewImage(k, file) ==
  [id |-> ImageId(k),
   file |-> file,                 \* fileName and fileSize of the File it was built from
   status |-> "pending",
   originalMat |-> 0,
   preprocessingResult |-> <<>>,  \* handles of grayscale, blurred, binary, processed; <<>> when null
   detectionResult |-> <<>>,      \* handles of the contour copies of its cards; <<>> when null
   extractedCards |-> <<>>,
   error |-> FALSE]

\* the files of one upload: n files never seen before
NewFiles(n) == [j \in 1..n |-> nFiles + j]

\* addImages(files) on the objects hp and the queue q
AddedHeap(hp, q, files) ==
  hp \o [j \in 1..Len(files) |-> NewImage(Len(q) + j, files[j])]

AddedImages(hp, q, files) ==
  q \o [j \in 1..Len(files) |-> Len(hp) + j]

\* files[i]
FileAt(files, i) == IF i < Len(files) THEN files[i + 1] ELSE 0

\* new cv.Mat(): one entry of the ledger per kind
Alloc(ms, kinds) ==
  ms \o [j \in 1..Len(kinds) |-> [kind |-> kinds[j], rel |-> 0]]

\* what one image's pipeline run (lines 130-183) can end in
Outcomes == {"reject", "preprocess", "extract", "none", "one"}

\* the try block of processAll from the resumption of the await on, for the
\* image object im, when the buffers stand as ms:
\*   reject      loadImageFromFile rejects; nothing was allocated
\*   preprocess  preprocessImage throws in GaussianBlur, after it allocated
\*               the grayscale and blurred Mats
\*   extract     one card is detected and extractCard throws in
\*               warpPerspective, after it allocated the card's output Mat
\*   none        the image completes, nothing detected
\*   one         the image completes with one card
Pipeline(im, ms, outcome) ==
  LET n == Len(ms)
      dims == DimsOf(n)
  IN CASE outcome = "reject" ->
            [image |-> [im EXCEPT !.status = "error", !.error = TRUE],
             mats |-> ms]
       [] outcome = "preprocess" ->
            [image |-> [im EXCEPT !.originalMat = n + 1,
                                  !.status = "error", !.error = TRUE],
             mats |-> Alloc(ms, <<"original", "grayscale", "blurred">>)]
       [] outcome = "extract" ->
            [image |-> [im EXCEPT !.originalMat = n + 1,
                                  !.preprocessingResult = <<n + 2, n + 3, n + 4, n + 5>>,
                                  !.detectionResult = <<n + 6>>,
                                  !.status = "error", !.error = TRUE],
             mats |-> Alloc(ms, <<"original", "grayscale", "blurred", "binary",
                                  "processed", "contour", "card">>)]
       [] outcome = "none" ->
            [image |-> [im EXCEPT !.originalMat = n + 1,
                                  !.preprocessingResult = <<n + 2, n + 3, n + 4, n + 5>>,
                                  !.detectionResult = <<>>,
                                  !.status = "completed"],
             mats |-> Alloc(ms, <<"original", "grayscale", "blurred", "binary",
                                  "processed">>)]
       [] outcome = "one" ->
            [image |-> [im EXCEPT !.originalMat = n + 1,
                                  !.preprocessingResult = <<n + 2, n + 3, n + 4, n + 5>>,
                                  !.detectionResult = <<n + 6>>,
                                  !.extractedCards =
                                     <<[image |-> n + 7, cols |-> dims.cols, rows |-> dims.rows]>>,
                                  !.status = "completed"],
             mats |-> Alloc(ms, <<"original", "grayscale", "blurred", "binary",
                                  "processed", "contour", "card">>)]

\* the handles clear() calls delete() on
ClearHandles(hp, q) ==
  UNION { ({hp[q[j]].originalMat} \ {0})
            \cup { hp[q[j]].preprocessingResult[m] : m \in 1..Len(hp[q[j]].preprocessingResult) }
            \cup { hp[q[j]].detectionResult[m] : m \in 1..Len(hp[q[j]].detectionResult) }
          : j \in 1..Len(q) }

\* getImages(), as loadFromImages reads it
QueueImages(hp, q) ==
  [j \in 1..Len(q) |-> [id |-> hp[q[j]].id, extractedCards |-> hp[q[j]].extractedCards]]

\* useBatchProcessor.isComplete, once its isProcessing flag is down
IsComplete(hp, q) ==
  \A j \in 1..Len(q) : hp[q[j]].status \in {"completed", "error"}

\* a processAll call suspended at its first await: it holds the image and
\* the file it read at index i
FirstRun(q, files) ==
  [files |-> files, i |-> 0, image |-> q[1], file |-> FileAt(files, 0)]

\* handleBatchUpload up to its await: clear(), cleanup(), addImages(files),
\* processAll(files)
VanillaUpload(n) ==
  LET files == NewFiles(n)
      hp == AddedHeap(heap, <<>>, files)
      q == AddedImages(heap, <<>>, files)
  IN /\ nFiles + n <= MaxFiles
     /\ app \in {"none", "vanilla"}
     /\ app' = "vanilla"
     /\ CleanupFrom(Release(mats, ClearHandles(heap, batchImages)))
     /\ heap' = [hp EXCEPT ![q[1]].status = "processing"]
     /\ batchImages' = q
     /\ isProcessing' = TRUE
     /\ runs' = Append(runs, FirstRun(q, files))
     /\ nFiles' = nFiles + n
     /\ UNCHANGED <<nMut, nUndo>>
     /\ UNCHANGED <<PoolVars, SheetVars, DetectVars, LibVars>>

\* useBatchProcessor.processAll up to its await: addImages(files), then
\* processAll(files), which throws when a run is in progress
VueUpload(n) ==
  LET files == NewFiles(n)
      hp == AddedHeap(heap, batchImages, files)
      q == AddedImages(heap, batchImages, files)
  IN /\ nFiles + n <= MaxFiles
     /\ app \in {"none", "vue"}
     /\ app' = "vue"
     /\ batchImages' = q
     /\ nFiles' = nFiles + n
     /\ IF isProcessing
        THEN /\ heap' = hp
             /\ UNCHANGED <<isProcessing, runs>>
        ELSE /\ heap' = [hp EXCEPT ![q[1]].status = "processing"]
             /\ isProcessing' = TRUE
             /\ runs' = Append(runs, FirstRun(q, files))
     /\ UNCHANGED <<mats, nMut, nUndo>>
     /\ UNCHANGED CardVars
     /\ UNCHANGED <<PoolVars, SheetVars, DetectVars, LibVars>>

\* the load awaited by run r settles: the rest of the try block runs for its
\* image, then the loop goes on to the next index of the queue, or the run
\* ends and the handler that awaited it loads the cards into the manager
LoadSettles(r, outcome) ==
  LET run == runs[r]
      after == Pipeline(heap[run.image], mats, outcome)
      hp == [heap EXCEPT ![run.image] = after.image]
      i == run.i + 1
  IN /\ run.file = 0 => outcome = "reject"
     /\ mats' = after.mats
     /\ IF i < Len(batchImages)
        THEN /\ heap' = [hp EXCEPT ![batchImages[i + 1]].status = "processing"]
             /\ runs' = [runs EXCEPT ![r] = [run EXCEPT !.i = i,
                                                       !.image = batchImages[i + 1],
                                                       !.file = FileAt(run.files, i)]]
             /\ UNCHANGED isProcessing
             /\ UNCHANGED CardVars
        ELSE /\ heap' = hp
             /\ runs' = SubSeq(runs, 1, r - 1) \o SubSeq(runs, r + 1, Len(runs))
             /\ isProcessing' = FALSE
             /\ IF app = "vanilla" \/ IsComplete(hp, batchImages)
                THEN LoadFromImages(QueueImages(hp, batchImages))
                ELSE UNCHANGED CardVars
     /\ UNCHANGED <<batchImages, nFiles, app, nMut, nUndo>>
     /\ UNCHANGED <<PoolVars, SheetVars, DetectVars, LibVars>>

\* resetBatch, or the unmount of the Vue view: clear() followed by cleanup()
Teardown ==
  /\ CleanupFrom(Release(mats, ClearHandles(heap, batchImages)))
  /\ batchImages' = <<>>
  /\ isProcessing' = FALSE
  /\ UNCHANGED <<heap, runs, nFiles, app, nMut, nUndo>>
  /\ UNCHANGED <<PoolVars, SheetVars, DetectVars, LibVars>>

BatchSelectAll == Room /\ loaded /\ SelectAll /\ Idle

BatchUndo == loaded /\ Undo /\ Idle

BatchRedo == loaded /\ Redo /\ Idle

NextBatch ==
  \/ \E n \in 1..2 : VanillaUpload(n)
  \/ \E n \in 1..2 : VueUpload(n)
  \/ \E r \in 1..Len(runs), outcome \in Outcomes : LoadSettles(r, outcome)
  \/ Teardown
  \/ BatchSelectAll
  \/ BatchUndo
  \/ BatchRedo

\* every pending image load resolves or rejects
SpecBatch ==
  /\ Init
  /\ [][NextBatch]_vars
  /\ WF_vars(\E r \in 1..Len(runs), outcome \in Outcomes : LoadSettles(r, outcome))

\* ---------------------------------------------------------------------------
\* Worker pool (useWebWorker in composables).  A task is named by its number
\* in submission order.  Each worker answers the messages posted to it one
\* after the other; a reply is delivered to every listener attached to that
\* worker at the time.  The progress bookkeeping (currentProgress) is not
\* followed.

\* the refs of the composable as one record
PoolNow ==
  [workers |-> workers, taskQueue |-> taskQueue, activeTasks |-> activeTasks,
   totalTasks |-> totalTasks, completedTasks |-> completedTasks,
   failedTasks |-> failedTasks, isProcessing |-> poolIsProcessing,
   settled |-> settled]

SetPool(P) ==
  /\ workers' = P.workers
  /\ taskQueue' = P.taskQueue
  /\ activeTasks' = P.activeTasks
  /\ totalTasks' = P.totalTasks
  /\ completedTasks' = P.completedTasks
  /\ failedTasks' = P.failedTasks
  /\ poolIsProcessing' = P.isProcessing
  /\ settled' = P.settled

\* the JavaScript remainder a % n: it carries the sign of a
JsRem(a, n) == IF a >= 0 THEN a % n ELSE -((-a) % n)

\* initWorkers()
initWorkers == [w \in 1..maxWorkers |-> [inbox |-> <<>>, listeners |-> <<>>]]

\* getFreeWorker(): the worker at workers[activeTasks % workers.length],
\* 0 when that is null or undefined (no workers, or a negative index)
getFreeWorker(P) ==
  IF Len(P.workers) = 0 THEN 0
  ELSE IF JsRem(P.activeTasks, Len(P.workers)) < 0 THEN 0
  ELSE JsRem(P.activeTasks, Len(P.workers)) + 1

\* executeTask(task)
executeTask(P, t) ==
  LET w == getFreeWorker(P)
  IN IF w = 0
     THEN [P EXCEPT !.settled[t] = Append(@, 0)]   \* task.reject("No workers available")
     ELSE [P EXCEPT !.activeTasks = @ + 1,
                    !.workers[w].listeners = Append(@, t),
                    !.workers[w].inbox = Append(@, t)]

\* processNextTask()
processNextTask(P) ==
  LET P1 == IF Len(P.taskQueue) > 0 /\ P.activeTasks < maxWorkers
            THEN executeTask([P EXCEPT !.taskQueue = Tail(@)], Head(P.taskQueue))
            ELSE P
  IN IF Len(P1.taskQueue) = 0 /\ P1.activeTasks = 0
     THEN [P1 EXCEPT !.isProcessing = FALSE]
     ELSE P1

\* runTask(id, data) for the next task number
runTask(P) ==
  LET t == Len(P.settled) + 1
      P1 == [P EXCEPT !.taskQueue = Append(@, t),
                      !.totalTasks = @ + 1,
                      !.settled = Append(@, <<>>)]
      P2 == IF ~P1.isProcessing
            THEN [P1 EXCEPT !.isProcessing = TRUE,
                            !.workers = IF Len(@) = 0 THEN initWorkers ELSE @]
            ELSE P1
  IN processNextTask(P2)

\* reset()
reset(P) ==
  [P EXCEPT !.taskQueue = <<>>, !.activeTasks = 0, !.totalTasks = 0,
            !.completedTasks = 0, !.failedTasks = 0, !.isProcessing = FALSE]

\* handleMessage / handleError of task u, attached to worker w, receiving
\* the reply of the given kind that the worker produced for the data of task
\* from
handleMessage(P, w, u, kind, from) ==
  LET P1 == [P EXCEPT !.completedTasks = IF kind = "complete" THEN @ + 1 ELSE @,
                      !.failedTasks = IF kind = "error" THEN @ + 1 ELSE @,
                      !.activeTasks = @ - 1,
                      !.settled[u] = Append(@, from)]
      P2 == processNextTask(P1)
  IN [P2 EXCEPT !.workers[w].listeners = SelectSeq(@, LAMBDA x : x # u)]

\* the event is delivered to the listeners that were attached when it fired
RECURSIVE Dispatch(_, _, _, _, _)
Dispatch(P, w, listeners, kind, from) ==
  IF listeners = <<>> THEN P
  ELSE Dispatch(handleMessage(P, w, Head(listeners), kind, from),
                w, Tail(listeners), kind, from)

NotPool ==
  /\ UNCHANGED CardVars
  /\ UNCHANGED <<nMut, nUndo>>
  /\ UNCHANGED BatchVars
  /\ UNCHANGED <<SheetVars, DetectVars, LibVars>>

RunTask ==
  /\ Len(settled) < MaxTasks
  /\ SetPool(runTask(PoolNow))
  /\ NotPool

\* runBatch(tasks) with two tasks
RunBatch ==
  /\ Len(settled) + 2 <= MaxTasks
  /\ SetPool(runTask(runTask(PoolNow)))
  /\ NotPool

\* worker w answers the oldest message posted to it: a "complete" message,
\* or an "error" message or error event
WorkerReplies(w, kind) ==
  /\ workers[w].inbox # <<>>
  /\ SetPool(Dispatch([PoolNow EXCEPT !.workers[w].inbox = Tail(@)],
                      w, workers[w].listeners, kind, Head(workers[w].inbox)))
  /\ NotPool

Reset ==
  /\ SetPool(reset(PoolNow))
  /\ NotPool

NextPool ==
  \/ RunTask
  \/ RunBatch
  \/ \E w \in 1..Len(workers), kind \in {"complete", "error"} : WorkerReplies(w, kind)
  \/ Reset

SpecPool == Init /\ [][NextPool]_vars

\* the pool when reset() is never called
NextTasks ==
  \/ RunTask
  \/ RunBatch
  \/ \E w \in 1..Len(workers), kind \in {"complete", "error"} : WorkerReplies(w, kind)

SpecTasks == Init /\ [][NextTasks]_vars

\* ---------------------------------------------------------------------------
\* Composite generator (lib/compositeGenerator.ts).  A card is known by its
\* globalId and the size of its image; quotients of sizes are kept exact and
\* compared by cross-multiplication.

\* Card lists handed to generateComposite: card i of mix m has the size
\* SheetMixes[m][i], cyclically.
SheetMixes ==
  << << [cols |-> 750, rows |-> 1050] >>,
     << [cols |-> 750, rows |-> 1050], [cols |-> 1050, rows |-> 750] >>,
     << [cols |-> 1050, rows |-> 750], [cols |-> 750, rows |-> 1050],
        [cols |-> 600, rows |-> 840] >>,
     << [cols |-> 600, rows |-> 840], [cols |-> 1050, rows |-> 750] >>,
     << [cols |-> 1, rows |-> 1000] >> >>

SheetCards(n, m) ==
  [i \in 1..n |->
     [globalId |-> i,
      image |-> SheetMixes[m][((i - 1) % Len(SheetMixes[m])) + 1]]]

\* CompositeOptions after the merge with the defaults; maxCardWidth = 0
\* stands for an absent maxCardWidth / maxCardHeight
SheetOptions ==
  [cardsPerRow : 1..4,
   spacing : {0, 10},
   scaleMode : {"fit", "original"},
   max : {[w |-> 300, h |-> 420], [w |-> 2000, h |-> 2000], [w |-> 0, h |-> 0]}]

\* what fails during the run: nothing, the resize of the card at position
\* at, or the copy of the card at position at
SheetFaults(n) ==
  {[kind |-> "none", at |-> 0]} \cup [kind : {"resize", "place"}, at : 1..n]

\* Math.round(p / q) for p >= 0, q > 0
Round(p, q) == (2 * p + q) \div (2 * q)

\* Math.max(...xs)
RECURSIVE MathMax(_)
MathMax(xs) ==
  IF Len(xs) = 1 THEN xs[1]
  ELSE IF xs[1] >= MathMax(Tail(xs)) THEN xs[1] ELSE MathMax(Tail(xs))

maxOriginalWidth(cs) == MathMax([i \in 1..Len(cs) |-> cs[i].image.cols])
maxOriginalHeight(cs) == MathMax([i \in 1..Len(cs) |-> cs[i].image.rows])

\* scale = Math.min(scaleX, scaleY, 1), as a fraction
scale(cs, o) ==
  LET mw == maxOriginalWidth(cs)
      mh == maxOriginalHeight(cs)
  IN IF o.max.w >= mw /\ o.max.h >= mh THEN [num |-> 1, den |-> 1]
     ELSE IF o.max.w * mh <= o.max.h * mw THEN [num |-> o.max.w, den |-> mw]
     ELSE [num |-> o.max.h, den |-> mh]

FitToMax(o) == o.scaleMode = "fit" /\ o.max.w # 0 /\ o.max.h # 0

\* the cell: cardWidth and cardHeight of calculateLayout
cardWidth(cs, o) ==
  IF FitToMax(o)
  THEN Round(maxOriginalWidth(cs) * scale(cs, o).num, scale(cs, o).den)
  ELSE cs[1].image.cols

cardHeight(cs, o) ==
  IF FitToMax(o)
  THEN Round(maxOriginalHeight(cs) * scale(cs, o).num, scale(cs, o).den)
  ELSE cs[1].image.rows

gridCols(cs, o) == IF o.cardsPerRow <= Len(cs) THEN o.cardsPerRow ELSE Len(cs)

\* the row count without the partly filled last row
gridRowsFloor(cs, o) == Len(cs) \div gridCols(cs, o)

\* Math.ceil(cards.length / cols)
gridRows(cs, o) == (Len(cs) + gridCols(cs, o) - 1) \div gridCols(cs, o)

\* a forEach body that always fits the card to the width of the cell
cardPositionFitWidth(cs, o, index) ==
  LET cw == cardWidth(cs, o)
      ch == cardHeight(cs, o)
      row == (index - 1) \div gridCols(cs, o)
      col == (index - 1) % gridCols(cs, o)
      img == cs[index].image
  IN [cardId |-> cs[index].globalId,
      x |-> o.spacing + col * (cw + o.spacing),
      y |-> o.spacing + row * (ch + o.spacing),
      width |-> cw,
      height |-> IF o.scaleMode = "fit"
                 THEN Round(cw * img.rows, img.cols) ELSE ch,
      row |-> row,
      col |-> col]

\* the position of the card at index - 1 (the forEach body of calculateLayout)
cardPosition(cs, o, index) ==
  LET cw == cardWidth(cs, o)
      ch == cardHeight(cs, o)
      row == (index - 1) \div gridCols(cs, o)
      col == (index - 1) % gridCols(cs, o)
      img == cs[index].image
      taller == img.rows * cw > ch * img.cols   \* aspectRatio > targetAspectRatio
  IN [cardId |-> cs[index].globalId,
      x |-> o.spacing + col * (cw + o.spacing),
      y |-> o.spacing + row * (ch + o.spacing),
      width |-> IF o.scaleMode = "fit" /\ taller
                THEN Round(ch * img.cols, img.rows) ELSE cw,
      height |-> IF o.scaleMode = "fit" /\ ~taller
                 THEN Round(cw * img.rows, img.cols) ELSE ch,
      row |-> row,
      col |-> col]

calculateLayout(cs, o) ==
  [totalWidth |-> gridCols(cs, o) * cardWidth(cs, o)
                    + (gridCols(cs, o) + 1) * o.spacing,
   totalHeight |-> gridRows(cs, o) * cardHeight(cs, o)
                     + (gridRows(cs, o) + 1) * o.spacing,
   rows |-> gridRows(cs, o),
   cols |-> gridCols(cs, o),
   cardPositions |-> [i \in 1..Len(cs) |-> cardPosition(cs, o, i)]]

\* cards.find((c) => c.globalId === pos.cardId), 0 when there is none
FindCard(cs, id) ==
  IF \E i \in 1..Len(cs) : cs[i].globalId = id
  THEN CHOOSE i \in 1..Len(cs) :
         cs[i].globalId = id /\ \A j \in 1..(i - 1) : cs[j].globalId # id
  ELSE 0

\* the forEach over layout.cardPositions from position k on; acc collects the
\* positions copied onto the sheet and the positions whose failure was
\* caught and logged
RECURSIVE PlaceCards(_, _, _, _, _, _)
PlaceCards(cs, o, layout, fault, k, acc) ==
  IF k > Len(layout.cardPositions) THEN acc
  ELSE
    LET pos == layout.cardPositions[k]
        c == FindCard(cs, pos.cardId)
        resized == /\ o.scaleMode = "fit"
                   /\ (pos.width # cs[c].image.cols \/ pos.height # cs[c].image.rows)
    IN IF c = 0 THEN PlaceCards(cs, o, layout, fault, k + 1, acc)
       ELSE IF resized /\ fault = [kind |-> "resize", at |-> k]
       THEN [acc EXCEPT !.threw = TRUE]         \* cv.resize is outside the try
       ELSE IF fault = [kind |-> "place", at |-> k]
       THEN PlaceCards(cs, o, layout, fault, k + 1,
                       [acc EXCEPT !.logged = @ \cup {k}])
       ELSE PlaceCards(cs, o, layout, fault, k + 1,
                       [acc EXCEPT !.placed = @ \cup {k}])

\* generateComposite with the emptiness test after the sheet is created
generateCompositeLateGuard(cs, o, fault) ==
  IF Len(cs) = 0
  THEN [ret |-> "threw", error |-> "No cards to composite",
        layoutComputed |-> TRUE, canvasCreated |-> TRUE,
        placed |-> {}, logged |-> {}]
  ELSE
    LET layout == calculateLayout(cs, o)
        done == PlaceCards(cs, o, layout, fault, 1,
                           [placed |-> {}, logged |-> {}, threw |-> FALSE])
    IN [ret |-> IF done.threw THEN "threw" ELSE "returned",
        error |-> IF done.threw THEN "resize" ELSE "",
        layoutComputed |-> TRUE, canvasCreated |-> TRUE,
        layout |-> layout,
        placed |-> done.placed, logged |-> done.logged]

generateComposite(cs, o, fault) ==
  IF Len(cs) = 0
  THEN [ret |-> "threw", error |-> "No cards to composite",
        layoutComputed |-> FALSE, canvasCreated |-> FALSE,
        placed |-> {}, logged |-> {}]
  ELSE
    LET layout == calculateLayout(cs, o)
        done == PlaceCards(cs, o, layout, fault, 1,
                           [placed |-> {}, logged |-> {}, threw |-> FALSE])
    IN [ret |-> IF done.threw THEN "threw" ELSE "returned",
        error |-> IF done.threw THEN "resize" ELSE "",
        layoutComputed |-> TRUE, canvasCreated |-> TRUE,
        layout |-> layout,
        placed |-> done.placed, logged |-> done.logged]

NotSheet ==
  /\ UNCHANGED CardVars
  /\ UNCHANGED <<nMut, nUndo>>
  /\ UNCHANGED BatchVars
  /\ UNCHANGED <<PoolVars, DetectVars, LibVars>>

GenerateComposite(cs, o, fault) ==
  /\ ~genArgs.called
  /\ genArgs' = [called |-> TRUE, cards |-> cs, options |-> o, fault |-> fault]
  /\ genResult' = generateComposite(cs, o, fault)
  /\ NotSheet

NextSheet ==
  \E n \in 0..MaxSheetCards, m \in 1..Len(SheetMixes), o \in SheetOptions :
    \E fault \in SheetFaults(n) : GenerateComposite(SheetCards(n, m), o, fault)

SpecSheet == Init /\ [][NextSheet]_vars

\* ---------------------------------------------------------------------------
\* Card detector (lib/cardDetector.ts, detectCards).  A contour found by
\* cv.findContours is known by its area, the width and height of its
\* bounding box and the area of its convex hull.  Area ratios are in
\* thousandths, aspect ratios and solidity in hundredths, and the comparisons
\* are made by cross-multiplication.

\* binaryImage.rows * binaryImage.cols for a 100 x 100 mask
imageArea == 100 * 100

ContourKinds ==
  << [area |-> 1500, width |-> 30, height |-> 50, hullArea |-> 1500],
     [area |-> 1000, width |-> 25, height |-> 40, hullArea |-> 1000],
     [area |-> 3000, width |-> 50, height |-> 60, hullArea |-> 3000],
     [area |-> 50, width |-> 6, height |-> 9, hullArea |-> 50],
     [area |-> 1500, width |-> 50, height |-> 30, hullArea |-> 1500],
     [area |-> 1500, width |-> 40, height |-> 50, hullArea |-> 2000],
     [area |-> 1700, width |-> 40, height |-> 50, hullArea |-> 2000],
     [area |-> 0, width |-> 10, height |-> 15, hullArea |-> 0],
     [area |-> 6000, width |-> 70, height |-> 90, hullArea |-> 6000] >>

\* the contours of a mask, in the order of cv.findContours
ContourLists ==
  UNION {[1..n -> 1..Len(ContourKinds)] : n \in 0..MaxContours}

\* CardDetectionOptions after the merge with the defaults; the ranges are
\* those of the parameter sliders
DetectOptions ==
  [minAreaRatio : {10, 100, 600},
   maxAreaRatio : {100, 500, 1000},
   aspect : {[min |-> 120, max |-> 180], [min |-> 50, max |-> 300]},
   minSolidity : {50, 85}]

\* a comparison with NaN (0 / 0) is false, x / 0 with x > 0 is Infinity
SolidityBelow(c, minSolidity) ==
  c.hullArea # 0 /\ c.area * 100 < minSolidity * c.hullArea

\* the filters with the area bounds taken as exclusive
passesFiltersExclusive(c, o) ==
  /\ ~(c.area * 1000 <= imageArea * o.minAreaRatio
         \/ c.area * 1000 >= imageArea * o.maxAreaRatio)
  /\ ~(c.height * 100 < o.aspect.min * c.width
         \/ c.height * 100 > o.aspect.max * c.width)
  /\ ~SolidityBelow(c, o.minSolidity)

\* the three filters of the loop body: TRUE when the contour is not skipped
passesFilters(c, o) ==
  /\ ~(c.area * 1000 < imageArea * o.minAreaRatio
         \/ c.area * 1000 > imageArea * o.maxAreaRatio)
  /\ ~(c.height * 100 < o.aspect.min * c.width
         \/ c.height * 100 > o.aspect.max * c.width)
  /\ ~SolidityBelow(c, o.minSolidity)

\* extractCornersFromRotatedRect for an upright rectangle (angle 0), in half
\* pixels relative to the centre
extractCornersFromRotatedRect(c) ==
  << [x |-> -c.width, y |-> -c.height], [x |-> c.width, y |-> -c.height],
     [x |-> c.width, y |-> c.height], [x |-> -c.width, y |-> c.height] >>

\* the loop over the contours from index i on
RECURSIVE detectFrom(_, _, _, _)
detectFrom(cs, o, i, found) ==
  IF i > Len(cs) THEN found
  ELSE LET c == ContourKinds[cs[i]]
           corners == extractCornersFromRotatedRect(c)
       IN IF passesFilters(c, o) /\ Len(corners) = 4
          THEN detectFrom(cs, o, i + 1,
                          Append(found, [contour |-> i, corners |-> corners,
                                         area |-> c.area]))
          ELSE detectFrom(cs, o, i + 1, found)

detectCards(cs, o) ==
  LET found == detectFrom(cs, o, 1, <<>>)
  IN [cards |-> found, totalContours |-> Len(cs),
      filteredCount |-> Len(found), threw |-> FALSE]

DetectCards(cs, o) ==
  /\ ~detArgs.called
  /\ detArgs' = [called |-> TRUE, contours |-> cs, options |-> o]
  /\ detResult' = detectCards(cs, o)
  /\ UNCHANGED CardVars
  /\ UNCHANGED <<nMut, nUndo>>
  /\ UNCHANGED BatchVars
  /\ UNCHANGED <<PoolVars, SheetVars, LibVars>>

NextDetect ==
  \E cs \in ContourLists, o \in DetectOptions : DetectCards(cs, o)

SpecDetect == Init /\ [][NextDetect]_vars
\* ===========================================================================
\* Properties

\* ---------------------------------------------------------------------------
\* Corner ordering (lib/cardDetector.ts, orderCorners).  Points have integer
\* coordinates; a point is taken relative to the centre times 4, which keeps
\* every quantity an integer, and angles are compared exactly.

GridPoints == [x : 0..MaxCoord, y : 0..MaxCoord]

\* lists of 3 or 4 distinct points
CornerLists ==
  { c \in [1..3 -> GridPoints] \cup [1..4 -> GridPoints] :
      \A i, j \in DOMAIN c : i # j => c[i] # c[j] }

RECURSIVE SumOf(_, _)
SumOf(f, n) == IF n = 0 THEN 0 ELSE f[n] + SumOf(f, n - 1)

\* 4 * (point - centre)
FromCentre(corners, p) ==
  [x |-> 4 * p.x - SumOf([i \in 1..4 |-> corners[i].x], 4),
   y |-> 4 * p.y - SumOf([i \in 1..4 |-> corners[i].y], 4)]

\* where Math.atan2(v.y, v.x) lies: 0 for (-pi, 0), 1 for 0, 2 for (0, pi]
HalfOf(v) == IF v.y < 0 THEN 0 ELSE IF v.y = 0 /\ v.x >= 0 THEN 1 ELSE 2

\* Math.atan2(u.y, u.x) < Math.atan2(v.y, v.x)
AngleLess(u, v) ==
  IF HalfOf(u) # HalfOf(v) THEN HalfOf(u) < HalfOf(v)
  ELSE IF HalfOf(u) = 1 THEN FALSE
  ELSE u.x * v.y - u.y * v.x > 0

\* an insertion that puts every point in front, whatever its angle
InsertByAngleAlwaysFirst(corners, sorted, p) == <<p>> \o sorted

\* cornersWithAngle.sort((a, b) => a.angle - b.angle): a stable sort, p is
\* inserted behind the points whose angle is not greater
RECURSIVE InsertByAngle(_, _, _)
InsertByAngle(corners, sorted, p) ==
  IF sorted = <<>> THEN <<p>>
  ELSE IF AngleLess(FromCentre(corners, p), FromCentre(corners, Head(sorted)))
       THEN <<p>> \o sorted
       ELSE <<Head(sorted)>> \o InsertByAngle(corners, Tail(sorted), p)

RECURSIVE SortByAngle(_, _)
SortByAngle(corners, n) ==
  IF n = 0 THEN <<>>
  ELSE InsertByAngle(corners, SortByAngle(corners, n - 1), corners[n])

\* the loop that finds the smallest x + y: index (0-based) of its first
\* occurrence
RECURSIVE MinSumIdx(_, _, _)
MinSumIdx(sorted, i, best) ==
  IF i > 3 THEN best
  ELSE IF sorted[i + 1].x + sorted[i + 1].y < sorted[best + 1].x + sorted[best + 1].y
       THEN MinSumIdx(sorted, i + 1, i)
       ELSE MinSumIdx(sorted, i + 1, best)

\* orderCorners that returns the corners as sorted, without the rotation
orderCornersUnrotated(corners) ==
  IF Len(corners) # 4
  THEN [threw |-> TRUE, ordered |-> <<>>]
  ELSE [threw |-> FALSE, ordered |-> SortByAngle(corners, 4)]

orderCorners(corners) ==
  IF Len(corners) # 4
  THEN [threw |-> TRUE, ordered |-> <<>>]
  ELSE LET sorted == SortByAngle(corners, 4)
           m == MinSumIdx(sorted, 1, 0)
       IN [threw |-> FALSE,
           ordered |-> [k \in 1..4 |-> sorted[((m + k - 1) % 4) + 1]]]

NotLib ==
  /\ UNCHANGED CardVars
  /\ UNCHANGED <<nMut, nUndo>>
  /\ UNCHANGED BatchVars
  /\ UNCHANGED <<PoolVars, SheetVars, DetectVars>>

\* orderCorners(corners), and orderCorners again on what it returned
OrderCorners(corners) ==
  /\ libArgs.fn = "none"
  /\ libArgs' = [fn |-> "orderCorners", corners |-> corners]
  /\ libResult' = [fn |-> "orderCorners",
                   first |-> orderCorners(corners),
                   second |-> IF orderCorners(corners).threw
                              THEN orderCorners(corners)
                              ELSE orderCorners(orderCorners(corners).ordered)]
  /\ NotLib

NextCorners == \E corners \in CornerLists : OrderCorners(corners)

SpecCorners == Init /\ [][NextCorners]_vars

\* ---------------------------------------------------------------------------
\* Card extraction (lib/cardExtractor.ts, extractCard): the size of the
\* rectified image.  The corners handed over are those of a detected card,
\* the corners of a rectangle (extractCornersFromRotatedRect) in any order.

Perms4 == { p \in [1..4 -> 1..4] : \A i, j \in 1..4 : i # j => p[i] # p[j] }

\* c[1], c[2], c[3], c[4] walk around a rectangle
WalksRectangle(c) ==
  /\ c[2].x - c[1].x = c[3].x - c[4].x
  /\ c[2].y - c[1].y = c[3].y - c[4].y
  /\ (c[2].x - c[1].x) * (c[4].x - c[1].x)
       + (c[2].y - c[1].y) * (c[4].y - c[1].y) = 0

RectangleCorners ==
  { c \in CornerLists :
      Len(c) = 4 /\ \E p \in Perms4 : WalksRectangle([k \in 1..4 |-> c[p[k]]]) }

\* { outputWidth, outputHeight } after the merge with the defaults
ExtractionOptions ==
  { [outputWidth |-> 750, outputHeight |-> 1050],
    [outputWidth |-> 600, outputHeight |-> 840] }

\* Math.pow(q.x - p.x, 2) + Math.pow(q.y - p.y, 2)
SquaredLength(p, q) == (q.x - p.x) * (q.x - p.x) + (q.y - p.y) * (q.y - p.y)

\* Math.sqrt(a) + Math.sqrt(b) > Math.sqrt(c) + Math.sqrt(d) for naturals,
\* decided without roots: with L = 4ab, R = 4cd and K = (c + d) - (a + b) it
\* is sqrt(L) - sqrt(R) > K
RootSumGreater(a, b, c, d) ==
  LET L == 4 * a * b
      R == 4 * c * d
      K == (c + d) - (a + b)
  IN IF K < 0
     THEN \/ L >= R
          \/ R - L - K * K < 0
          \/ (R - L - K * K) * (R - L - K * K) < 4 * K * K * L
     ELSE /\ L - R - K * K > 0
          /\ (L - R - K * K) * (L - R - K * K) > 4 * K * K * R

\* isPortrait: cardHeight > cardWidth, the means of the left and right and
\* of the top and bottom edge lengths of the ordered corners
isPortrait(oc) ==
  RootSumGreater(SquaredLength(oc[1], oc[4]), SquaredLength(oc[2], oc[3]),
                 SquaredLength(oc[1], oc[2]), SquaredLength(oc[4], oc[3]))

\* extractCard that never swaps the output dimensions
extractCardNoSwap(corners, o) ==
  IF orderCorners(corners).threw
  THEN [threw |-> TRUE, cols |-> 0, rows |-> 0]
  ELSE [threw |-> FALSE, cols |-> o.outputWidth, rows |-> o.outputHeight]

\* extractCard: the size of the Mat it returns
extractCard(corners, o) ==
  IF orderCorners(corners).threw
  THEN [threw |-> TRUE, cols |-> 0, rows |-> 0]
  ELSE IF isPortrait(orderCorners(corners).ordered)
       THEN [threw |-> FALSE, cols |-> o.outputWidth, rows |-> o.outputHeight]
       ELSE [threw |-> FALSE, cols |-> o.outputHeight, rows |-> o.outputWidth]

ExtractCard(corners, o) ==
  /\ libArgs.fn = "none"
  /\ libArgs' = [fn |-> "extractCard", corners |-> corners, options |-> o]
  /\ libResult' = [fn |-> "extractCard", image |-> extractCard(corners, o)]
  /\ NotLib

NextExtract ==
  \E corners \in RectangleCorners, o \in ExtractionOptions : ExtractCard(corners, o)

SpecExtract == Init /\ [][NextExtract]_vars

\* ---------------------------------------------------------------------------
\* The archive of all cards (lib/cardExtractor.ts, downloadAllCardsAsZip) and
\* its two callers: the single-image page hands over what extractAllCards
\* returned, the batch page the active view of the card manager.

\* extractAllCards: cardNumber: index + 1; the image is named by its source
\* image and its place in it
ExtractedOf(k, n) == [j \in 1..n |-> [image |-> <<k, j>>, cardNumber |-> j]]

\* BatchProcessor.processAll keeps cardNumber: cardIndex + 1 for every image,
\* and loadFromImages copies the cards of all images into one list
RECURSIVE BatchCards(_)
BatchCards(k) ==
  IF k = 0 THEN <<>> ELSE BatchCards(k - 1) \o ExtractedOf(k, MaxZipCards)

Reverse(s) == [i \in 1..Len(s) |-> s[Len(s) + 1 - i]]

\* cardManager.getCards(false): the loaded cards without the discarded ones,
\* in load order or, after sortCards or reorderCards, in another order
ActiveViews ==
  LET all == BatchCards(MaxZipImages)
      kept(D) == SelectSeq(all, LAMBDA c : c.image \notin D)
      views == { kept(D) : D \in SUBSET { all[i].image : i \in 1..Len(all) } }
  IN views \cup { Reverse(v) : v \in views }

\* `card_${String(card.cardNumber).padStart(3, "0")}.png`
ZipFilename(card) == <<"card_">> \o PadStart(card.cardNumber, 3) \o <<".png">>

\* zip.file(name, data): a new entry, or new data for the entry of that name
ZipFile(zip, name, data) ==
  IF \E i \in 1..Len(zip) : zip[i].name = name
  THEN [i \in 1..Len(zip) |->
          IF zip[i].name = name THEN [name |-> name, data |-> data] ELSE zip[i]]
  ELSE Append(zip, [name |-> name, data |-> data])

\* extractedCards.forEach((card) => zip.file(filename, base64Data))
RECURSIVE ZipCards(_, _, _)
ZipCards(zip, cs, i) ==
  IF i > Len(cs) THEN zip
  ELSE ZipCards(ZipFile(zip, ZipFilename(cs[i]), cs[i].image), cs, i + 1)

downloadAllCardsAsZip(extractedCards) == ZipCards(<<>>, extractedCards, 1)

\* the handlers return before the archive when there is no card
DownloadAll(mode, cs) ==
  /\ libArgs.fn = "none"
  /\ libArgs' = [fn |-> "downloadAllCardsAsZip", mode |-> mode, cards |-> cs]
  /\ libResult' = [fn |-> "downloadAllCardsAsZip",
                   alerted |-> (cs = <<>>),
                   zip |-> IF cs = <<>> THEN <<>> ELSE downloadAllCardsAsZip(cs)]
  /\ NotLib

\* single-image page: handleDownloadAllCards
HandleDownloadAllCards ==
  \E n \in 0..(MaxZipCards * MaxZipImages) : DownloadAll("single", ExtractedOf(1, n))

\* batch page: handleDownloadAll
HandleDownloadAll == \E cs \in ActiveViews : DownloadAll("batch", cs)

NextZip == HandleDownloadAllCards \/ HandleDownloadAll

SpecZip == Init /\ [][NextZip]_vars
\* ===========================================================================
\* globalIds of a card list, in list order
IdsOf(cs) == [i \in 1..Len(cs) |-> cs[i].globalId]

Range(f) == { f[i] : i \in DOMAIN f }

\* C2: immediately after discardCards(ids), every id of the list that names a
\* card of the collection is absent from the active view getCards(false),
\* present in the full view getCards(true), has isSelected = false and is not
\* returned by getSelectedCards(), whatever its selection state was before.
C2_DiscardHidesAndDeselects ==
  [][\A ids \in IdLists :
       DiscardCards(ids) =>
         \A id \in ids :
           Find(cards, id) # 0 =>
             /\ id \notin Range(IdsOf(getCards(cards', FALSE)))
             /\ id \in Range(IdsOf(getCards(cards', TRUE)))
             /\ ~cards'[Find(cards', id)].isSelected
             /\ id \notin Range(IdsOf(getSelectedCards(cards')))]_vars

\* a selected card has just been discarded
C2_Witness ==
  /\ lastOp = "discardCards"
  /\ \E i \in 1..Len(cards) :
       /\ Len(prev.cards) = Len(cards)
       /\ prev.cards[i].isSelected
       /\ ~prev.cards[i].isDiscarded
       /\ cards[i].isDiscarded

\* C3: in every reachable state no card is both selected and discarded, and
\* restoreCards turns each discarded card it names into an active card with
\* isSelected = false.
C3_NeverSelectedAndDiscarded ==
  /\ [](\A i \in 1..Len(cards) : ~(cards[i].isSelected /\ cards[i].isDiscarded))
  /\ [][\A ids \in IdLists :
          RestoreCards(ids) =>
            \A id \in ids :
              (Find(cards, id) # 0 /\ cards[Find(cards, id)].isDiscarded) =>
                /\ ~cards'[Find(cards, id)].isDiscarded
                /\ ~cards'[Find(cards, id)].isSelected]_vars

\* a discarded card has just been restored
C3_Witness ==
  /\ lastOp = "restoreCards"
  /\ Len(prev.cards) = Len(cards)
  /\ \E i \in 1..Len(cards) :
       /\ prev.cards[i].isDiscarded
       /\ ~cards[i].isDiscarded
       /\ ~cards[i].isSelected

\* C7: undo() with the cursor at the oldest snapshot, and redo() with the
\* cursor at the newest one, return false and change neither the cards, the
\* id sets, the history nor the cursor.
C7_BoundaryNoOp ==
  /\ [][(historyIndex = 0 /\ Undo) =>
          (ret' = "false" /\
           UNCHANGED <<cards, selectedIds, discardedIds, history, historyIndex>>)]_vars
  /\ [][(history # <<>> /\ historyIndex = Len(history) - 1 /\ Redo) =>
          (ret' = "false" /\
           UNCHANGED <<cards, selectedIds, discardedIds, history, historyIndex>>)]_vars

\* undo() has just been refused at the oldest of several snapshots
C7_Witness ==
  /\ lastOp = "undo"
  /\ ret = "false"
  /\ historyIndex = 0
  /\ Len(history) >= 2
  /\ opBefore = "undo"
  /\ Live = prev

\* C1 (as claimed): on a loaded collection, after any mutation call that took
\* the live state S to a different state S', undo() returns true and makes the
\* live state equal to S, and a redo() after that undo returns true and makes
\* it equal to S' again.
C1_UndoRedoRoundTrip ==
  /\ [][(loaded /\ lastOp \in MutationNames /\ Live # prev /\ Undo) =>
          (ret' = "true" /\ Live' = prev)]_vars
  /\ [][(loaded /\ lastOp = "undo" /\ ret = "true" /\ opBefore = "mutation" /\ Redo) =>
          (ret' = "true" /\ Live' = prev)]_vars

\* C4 (as claimed): the globalIds of the loaded cards are pairwise distinct,
\* and no select, deselect, discard, restore, reorder, sort, undo or redo on a
\* loaded collection changes the globalIds listed by the full view.
C4_StableGlobalIds ==
  /\ [](\A i, j \in 1..Len(cards) : i # j => cards[i].globalId # cards[j].globalId)
  /\ [][(loaded /\ lastOp' \notin {"loadFromImages", "cleanup"}) =>
          IdsOf(getCards(cards', TRUE)) = IdsOf(getCards(cards, TRUE))]_vars

\* the snapshots saveState keeps before it pushes: those up to the cursor
KeptHistory == SubSeq(history, 1, historyIndex + 1)

\* C5 (as claimed): the history never holds more than MaxHistory snapshots,
\* and every call of a mutation on a loaded collection records exactly one
\* snapshot of the resulting live state and leaves the cursor on it; when
\* MaxHistory snapshots are stored at that moment the oldest one is evicted.
C5_OneSnapshotPerMutation ==
  /\ [](Len(history) <= MaxHistory)
  /\ [][(loaded /\ lastOp' \in MutationNames /\
          <<ret, lastOp, opBefore, prev>>' # <<ret, lastOp, opBefore, prev>>) =>
          /\ history' = (IF Len(KeptHistory) = MaxHistory
                         THEN Tail(KeptHistory)
                         ELSE KeptHistory) \o <<Live'>>
          /\ historyIndex' = Len(history') - 1]_vars

C8_CursorInRange == 0 <= historyIndex /\ historyIndex <= Len(history) - 1

\* C8 (amended): while the history is empty (after construction and after
\* cleanup) the cursor is -1; whenever the history holds a snapshot,
\* 0 <= cursor <= history length - 1.
C8_CursorInRangeOrEmpty ==
  IF history = <<>>
  THEN historyIndex = -1
  ELSE 0 <= historyIndex /\ historyIndex <= Len(history) - 1

\* the history is full, its load snapshot has been evicted, and the cursor
\* sits on the newest snapshot
C8_Witness ==
  /\ Len(history) = MaxHistory
  /\ historyIndex = MaxHistory - 1
  /\ history[1].selectedIds # {}
  /\ lastOp \in {"selectAll", "deselectAll"}

\* array move: the element at 0-based index f is taken out and put at index t
Move(seq, f, t) ==
  LET rest == SubSeq(seq, 1, f) \o SubSeq(seq, f + 2, Len(seq))
  IN SubSeq(rest, 1, t) \o <<seq[f + 1]>> \o SubSeq(rest, t + 1, Len(rest))

\* C9 (as claimed): for indices valid in the active view,
\* reorderCards(fromIndex, toIndex) moves the card at fromIndex of
\* getCards(false) to toIndex of getCards(false), the other active cards keep
\* their relative order, and discarded cards are not affected.
C9_ReorderMovesInView ==
  [][\A f, t \in 0..(Len(getCards(cards, FALSE)) - 1) :
       ReorderCards(f, t) =>
         /\ IdsOf(getCards(cards', FALSE)) = Move(IdsOf(getCards(cards, FALSE)), f, t)
         /\ \A i \in 1..Len(cards) : cards[i].isDiscarded => cards'[i] = cards[i]]_vars

\* the key sortCards orders by, as a pair compared by KeyLess
KeyLess(criteria, a, b) ==
  CASE criteria = "position" -> a.customPosition < b.customPosition
    [] criteria = "source" -> a.sourceImageId # b.sourceImageId /\
                              LexLess(a.sourceImageId, b.sourceImageId, 1)
    [] criteria = "size" -> a.cols * a.rows < b.cols * b.rows
    [] criteria = "aspectRatio" -> a.rows * b.cols < b.rows * a.cols

\* C10: sortCards(criterion) gives the active cards the positions 0..n-1 in
\* non-decreasing order of the criterion key, active cards with equal keys
\* keep the relative order they had in the active view, discarded cards keep
\* their position, and nothing else about any card changes.
C10_SortIsStable ==
  [][\A c \in Criteria :
       SortCards(c) =>
         LET act == { i \in 1..Len(cards) : ~cards[i].isDiscarded }
         IN /\ Len(cards') = Len(cards)
            /\ { cards'[i].customPosition : i \in act } = 0..(Cardinality(act) - 1)
            /\ \A i, j \in act :
                 /\ KeyLess(c, cards[i], cards[j]) =>
                      cards'[i].customPosition < cards'[j].customPosition
                 /\ (i < j /\ ~KeyLess(c, cards[i], cards[j]) /\ ~KeyLess(c, cards[j], cards[i])) =>
                      cards'[i].customPosition < cards'[j].customPosition
            /\ \A i \in 1..Len(cards) :
                 /\ cards[i].isDiscarded => cards'[i] = cards[i]
                 /\ cards'[i] = [cards[i] EXCEPT !.customPosition = cards'[i].customPosition]]_vars

\* a sort has just renumbered the active cards in an order other than the
\* one they had
C10_Witness ==
  /\ lastOp = "sortCards"
  /\ Len(prev.cards) = Len(cards)
  /\ \E i, j \in 1..Len(cards) :
       /\ i < j
       /\ ~cards[i].isDiscarded /\ ~cards[j].isDiscarded
       /\ prev.cards[i].customPosition < prev.cards[j].customPosition
       /\ cards[i].customPosition > cards[j].customPosition

\* C11 (as claimed): whenever processAll loads a file for an image entry,
\* that file is the one addImages built the entry from, for any sequence of
\* uploads, teardowns and settled loads.
C11_FileMatchesImage ==
  \A r \in 1..Len(runs) : runs[r].file = heap[runs[r].image].file

\* C12 (as claimed): a failure while one image is processed is recorded on
\* that image and the run goes on with the later images of the queue; an
\* image in which nothing is detected completes with zero cards; when a run
\* ends, isProcessing is false and every image of the queue is completed or
\* in error; and, every load settling, every run ends.
C12_RunCompletesEveryImage ==
  /\ [][\A r \in 1..Len(runs), outcome \in Outcomes :
          LoadSettles(r, outcome) =>
            /\ outcome \in {"reject", "preprocess", "extract"} =>
                 /\ heap'[runs[r].image].status = "error"
                 /\ heap'[runs[r].image].error
                 /\ runs[r].i + 1 < Len(batchImages) =>
                      /\ Len(runs') = Len(runs)
                      /\ runs'[r].i = runs[r].i + 1
            /\ outcome = "none" =>
                 /\ heap'[runs[r].image].status = "completed"
                 /\ heap'[runs[r].image].extractedCards = <<>>
            /\ Len(runs') < Len(runs) =>
                 /\ ~isProcessing'
                 /\ IsComplete(heap', batchImages')]_vars
  /\ (runs # <<>>) ~> (runs = <<>>)

\* C13 (as claimed): no buffer is ever released more than once, and after a
\* teardown (clear() followed by cleanup()) every buffer the pipeline runs
\* allocated has been released.
C13_TeardownReleasesEveryBuffer ==
  /\ [](\A h \in DOMAIN mats : mats[h].rel <= 1)
  /\ [][Teardown => \A h \in DOMAIN mats' : mats'[h].rel = 1]_vars

\* tasks posted to a worker and not yet answered
RECURSIVE Outstanding(_, _)
Outstanding(ws, w) ==
  IF w > Len(ws) THEN 0 ELSE Len(ws[w].inbox) + Outstanding(ws, w + 1)

\* C14 (as claimed): the number of tasks posted to a worker and not yet
\* answered never exceeds maxWorkers, under any interleaving of runTask,
\* runBatch, worker replies, worker errors and reset().
C14_AtMostMaxWorkersPosted == Outstanding(workers, 1) <= maxWorkers

\* C15: for N >= 1 cards and cardsPerRow >= 1 the layout has
\* cols = min(cardsPerRow, N), rows = the least r with r * cols >= N, and the
\* sheet measures cols*cellW + (cols+1)*spacing by
\* rows*cellH + (rows+1)*spacing; N = 7 and cardsPerRow = 3 give 3 by 3.
C15_GridAndSheetSize ==
  (genArgs.called /\ Len(genArgs.cards) >= 1 /\ genArgs.options.cardsPerRow >= 1) =>
    LET N == Len(genArgs.cards)
        o == genArgs.options
        L == genResult.layout
        cellW == cardWidth(genArgs.cards, o)
        cellH == cardHeight(genArgs.cards, o)
    IN /\ genResult.layoutComputed
       /\ L.cols <= o.cardsPerRow /\ L.cols <= N
       /\ L.cols = o.cardsPerRow \/ L.cols = N
       /\ L.rows * L.cols >= N
       /\ (L.rows - 1) * L.cols < N
       /\ L.totalWidth = L.cols * cellW + (L.cols + 1) * o.spacing
       /\ L.totalHeight = L.rows * cellH + (L.rows + 1) * o.spacing
       /\ (N = 7 /\ o.cardsPerRow = 3) => (L.cols = 3 /\ L.rows = 3)

\* seven cards, three per row: the last row is partly filled
C15_Witness ==
  /\ genArgs.called
  /\ Len(genArgs.cards) = 7
  /\ genArgs.options.cardsPerRow = 3
  /\ genResult.ret = "returned"
  /\ genResult.layout.rows = 3
  /\ genResult.layout.totalHeight = 3 * 420 + 4 * 10

\* two placed rectangles share no pixel
Disjoint(p, q) ==
  \/ p.x + p.width <= q.x
  \/ q.x + q.width <= p.x
  \/ p.y + p.height <= q.y
  \/ q.y + q.height <= p.y

\* C16: the i-th card (0-based) is placed at row floor(i/cols), column
\* i mod cols, with origin (spacing + col*(cellW+spacing),
\* spacing + row*(cellH+spacing)) and a size no larger than the cell; the
\* rectangles of two cards do not overlap and every rectangle lies inside the
\* sheet, in fit and in original mode.
C16_RowMajorDisjointInsideSheet ==
  (genArgs.called /\ Len(genArgs.cards) >= 1) =>
    LET cs == genArgs.cards
        o == genArgs.options
        L == genResult.layout
        cellW == cardWidth(cs, o)
        cellH == cardHeight(cs, o)
    IN /\ Len(L.cardPositions) = Len(cs)
       /\ \A i \in 1..Len(cs) :
            LET p == L.cardPositions[i]
            IN /\ p.cardId = cs[i].globalId
               /\ p.row * L.cols <= i - 1 /\ i - 1 < (p.row + 1) * L.cols
               /\ p.col = (i - 1) - p.row * L.cols
               /\ p.x = o.spacing + p.col * (cellW + o.spacing)
               /\ p.y = o.spacing + p.row * (cellH + o.spacing)
               /\ p.width <= cellW /\ p.height <= cellH
               /\ p.x >= 0 /\ p.y >= 0
               /\ p.x + p.width <= L.totalWidth
               /\ p.y + p.height <= L.totalHeight
       /\ \A i, j \in 1..Len(cs) :
            i # j => Disjoint(L.cardPositions[i], L.cardPositions[j])

\* fit mode, two rows, portrait and landscape cards in a square cell, no
\* spacing: the cells touch and a card is narrower than its cell
C16_Witness ==
  /\ genArgs.called
  /\ Len(genArgs.cards) >= 4
  /\ genArgs.options.scaleMode = "fit"
  /\ genArgs.options.spacing = 0
  /\ genResult.ret = "returned"
  /\ genResult.layout.rows >= 2 /\ genResult.layout.cols >= 2
  /\ \E i \in 1..Len(genArgs.cards) :
       genResult.layout.cardPositions[i].width
         < cardWidth(genArgs.cards, genArgs.options)
  /\ \E i \in 1..Len(genArgs.cards) :
       genResult.layout.cardPositions[i].height
         < cardHeight(genArgs.cards, genArgs.options)

\* C17 (as claimed): in fit mode the cell is no larger than maxCardWidth by
\* maxCardHeight and no card is placed wider or taller than its own image.
C17_FitNeverUpscales ==
  (genArgs.called /\ Len(genArgs.cards) >= 1 /\ genArgs.options.scaleMode = "fit") =>
    LET cs == genArgs.cards
        o == genArgs.options
    IN /\ FitToMax(o) =>
            /\ cardWidth(cs, o) <= o.max.w
            /\ cardHeight(cs, o) <= o.max.h
       /\ \A i \in 1..Len(cs) :
            /\ genResult.layout.cardPositions[i].width <= cs[i].image.cols
            /\ genResult.layout.cardPositions[i].height <= cs[i].image.rows

\* C18 (as claimed): when the resize or the copy of one card fails,
\* generateComposite still returns the sheet and the layout, the failure is
\* logged, the card's cell stays blank and every other card is placed.
C18_OneFailureLeavesOneBlankCell ==
  (genArgs.called /\ Len(genArgs.cards) >= 1 /\ genArgs.fault.kind # "none") =>
    LET k == genArgs.fault.at
        pos == genResult.layout.cardPositions[k]
        failed == \/ genArgs.fault.kind = "place"
                  \/ /\ genArgs.options.scaleMode = "fit"
                     /\ \/ pos.width # genArgs.cards[k].image.cols
                        \/ pos.height # genArgs.cards[k].image.rows
    IN /\ genResult.ret = "returned"
       /\ failed => /\ genResult.logged = {k}
                    /\ genResult.placed = (1..Len(genArgs.cards)) \ {k}
       /\ ~failed => genResult.placed = 1..Len(genArgs.cards)

\* C19: generateComposite called with zero cards throws before a layout is
\* computed or a sheet is created, and whenever it returns there was a card.
C19_ZeroCardsThrowsFirst ==
  genArgs.called =>
    /\ Len(genArgs.cards) = 0 =>
         /\ genResult.ret = "threw"
         /\ genResult.error = "No cards to composite"
         /\ ~genResult.layoutComputed
         /\ ~genResult.canvasCreated
         /\ genResult.placed = {}
    /\ genResult.ret = "returned" => Len(genArgs.cards) >= 1

\* a call with an empty card list has thrown
C19_Witness ==
  /\ genArgs.called
  /\ genArgs.cards = <<>>
  /\ genResult.ret = "threw"

\* the contours the claim says are cards: area within
\* [minAreaRatio, maxAreaRatio] x imageArea, height/width within
\* [minAspectRatio, maxAspectRatio], solidity at least minSolidity
C20_Accepted ==
  {i \in 1..Len(detArgs.contours) :
     LET c == ContourKinds[detArgs.contours[i]]
         o == detArgs.options
     IN /\ imageArea * o.minAreaRatio <= c.area * 1000
        /\ c.area * 1000 <= imageArea * o.maxAreaRatio
        /\ o.aspect.min * c.width <= c.height * 100
        /\ c.height * 100 <= o.aspect.max * c.width
        /\ c.hullArea > 0
        /\ o.minSolidity * c.hullArea <= c.area * 100}

C25_SnapshotAtCursorIsLive ==
  history # <<>> => history[historyIndex + 1] = Live

\* C26 (as claimed): in every reachable state the selected-id set is the set
\* of globalIds of the cards with isSelected, the discarded-id set that of the
\* cards with isDiscarded, getStats().selected is the number of cards
\* getSelectedCards() returns and getStats().discarded is total minus active.
C26_IdSetsMatchFlags ==
  /\ selectedIds = { cards[i].globalId : i \in { j \in 1..Len(cards) : cards[j].isSelected } }
  /\ discardedIds = { cards[i].globalId : i \in { j \in 1..Len(cards) : cards[j].isDiscarded } }
  /\ getStats.selected = Len(getSelectedCards(cards))
  /\ getStats.discarded = getStats.total - getStats.active

\* C27 (as claimed): in every reachable state the active (non-discarded)
\* cards have pairwise distinct customPosition values.
C27_ActivePositionsDistinct ==
  \A i, j \in 1..Len(cards) :
    (i # j /\ ~cards[i].isDiscarded /\ ~cards[j].isDiscarded)
      => cards[i].customPosition # cards[j].customPosition

\* C28 (as claimed): after a successful undo() followed by any mutation the
\* undone snapshots are gone: the snapshot of the mutation is the newest
\* entry of the history, canRedo() is false, and redo() returns false and
\* changes nothing.
C28_MutationAfterUndoDropsRedo ==
  /\ []((opBefore = "undo" /\ lastOp \in MutationNames) =>
          /\ historyIndex = Len(history) - 1
          /\ history[Len(history)] = Live
          /\ ~(historyIndex < Len(history) - 1))
  /\ [][(opBefore = "undo" /\ lastOp \in MutationNames /\ lastOp' = "redo") =>
          /\ ret' = "false"
          /\ Live' = Live
          /\ history' = history
          /\ historyIndex' = historyIndex]_vars

\* C29 (as claimed): at most one processAll run is in progress at any time,
\* and a processAll call made while a run is suspended at its image load
\* starts no second iteration over the queue.
C29_AtMostOneRun ==
  /\ [](Len(runs) <= 1)
  /\ [][runs # <<>> => Len(runs') <= Len(runs)]_vars

\* C30 (as claimed): each task is settled at most once, and exactly once when
\* every posted message has been answered and the queue is empty, and only by
\* the reply a worker produced for that task's own data; a worker is never
\* given a second task while one of its tasks is unanswered.
C30_SettledOnceByOwnReply ==
  /\ \A t \in 1..Len(settled) :
       /\ Len(settled[t]) <= 1
       /\ \A k \in 1..Len(settled[t]) : settled[t][k] = t
  /\ \A w \in 1..Len(workers) : Len(workers[w].inbox) <= 1
  /\ (taskQueue = <<>> /\ \A w \in 1..Len(workers) : workers[w].inbox = <<>>)
       => \A t \in 1..Len(settled) : Len(settled[t]) = 1

\* twice the signed area of the triangle a, b, c
Orient(a, b, c) == (b.x - a.x) * (c.y - a.y) - (b.y - a.y) * (c.x - a.x)

NoThreeCollinear(P) ==
  \A i, j, k \in 1..4 :
    (i # j /\ j # k /\ i # k) => Orient(P[i], P[j], P[k]) # 0

\* the four points are the vertices of a convex quadrilateral: no three on a
\* line and none inside the triangle of the other three
ConvexPosition(P) ==
  /\ NoThreeCollinear(P)
  /\ \A i, j, k, d \in 1..4 :
       Cardinality({i, j, k, d}) = 4 =>
         ~(\/ /\ Orient(P[i], P[j], P[d]) > 0
               /\ Orient(P[j], P[k], P[d]) > 0
               /\ Orient(P[k], P[i], P[d]) > 0
            \/ /\ Orient(P[i], P[j], P[d]) < 0
               /\ Orient(P[j], P[k], P[d]) < 0
               /\ Orient(P[k], P[i], P[d]) < 0)

\* res is P in angular order around the centre (at most one step back in a
\* full turn), starts at a point of least x + y, and is what every
\* rearrangement of P is ordered to
OrderedWell(P, res) ==
  /\ ~res.threw
  /\ Len(res.ordered) = 4
  /\ Range(res.ordered) = Range(P)
  /\ Cardinality({ i \in 1..4 :
                     AngleLess(FromCentre(P, res.ordered[(i % 4) + 1]),
                               FromCentre(P, res.ordered[i])) }) <= 1
  /\ \A i \in 1..4 : res.ordered[1].x + res.ordered[1].y <= P[i].x + P[i].y
  /\ \A p \in Perms4 : orderCorners([k \in 1..4 |-> P[p[k]]]) = res

\* C21 (as claimed): for any 4 points no three of which are collinear,
\* orderCorners returns a permutation in angular order around the centroid
\* whose first point has the least x + y, whatever the order of the input.
C21_AnyNonCollinearPoints ==
  (libArgs.fn = "orderCorners" /\ Len(libArgs.corners) = 4
     /\ NoThreeCollinear(libArgs.corners))
    => OrderedWell(libArgs.corners, libResult.first)

\* C21 (amended): the same for the 4 vertices of a convex quadrilateral.
C21_ConvexQuadrilateral ==
  (libArgs.fn = "orderCorners" /\ Len(libArgs.corners) = 4
     /\ ConvexPosition(libArgs.corners))
    => OrderedWell(libArgs.corners, libResult.first)

\* a diamond given out of order: two corners share the least x + y
C21_Witness ==
  /\ libArgs.fn = "orderCorners"
  /\ libArgs.corners = << [x |-> 2, y |-> 1], [x |-> 0, y |-> 1],
                          [x |-> 1, y |-> 2], [x |-> 1, y |-> 0] >>
  /\ ConvexPosition(libArgs.corners)
  /\ libResult.first.ordered = << [x |-> 1, y |-> 0], [x |-> 2, y |-> 1],
                                  [x |-> 1, y |-> 2], [x |-> 0, y |-> 1] >>

\* C22 (as claimed): for any 4 points no three of which are collinear,
\* orderCorners(orderCorners(P)) equals orderCorners(P) element by element.
C22_IdempotentOnNonCollinearPoints ==
  (libArgs.fn = "orderCorners" /\ Len(libArgs.corners) = 4
     /\ NoThreeCollinear(libArgs.corners))
    => libResult.second = libResult.first

\* C22 (amended): orderCorners is idempotent on the 4 vertices of a convex
\* quadrilateral.
C22_IdempotentOnConvexQuadrilateral ==
  (libArgs.fn = "orderCorners" /\ Len(libArgs.corners) = 4
     /\ ConvexPosition(libArgs.corners))
    => /\ ~libResult.first.threw
       /\ libResult.second = libResult.first

\* a convex quadrilateral whose corners were given in another order than
\* the one returned, ordered a second time
C22_Witness ==
  /\ libArgs.fn = "orderCorners"
  /\ Len(libArgs.corners) = 4
  /\ ConvexPosition(libArgs.corners)
  /\ libResult.first.ordered # libArgs.corners
  /\ libResult.first.ordered[1] # libArgs.corners[1]
  /\ libResult.second.ordered = libResult.first.ordered

\* extent of the bounding box of the points
SpanX(P) ==
  (CHOOSE m \in { P[i].x : i \in 1..4 } : \A i \in 1..4 : P[i].x <= m)
    - (CHOOSE m \in { P[i].x : i \in 1..4 } : \A i \in 1..4 : P[i].x >= m)

SpanY(P) ==
  (CHOOSE m \in { P[i].y : i \in 1..4 } : \A i \in 1..4 : P[i].y <= m)
    - (CHOOSE m \in { P[i].y : i \in 1..4 } : \A i \in 1..4 : P[i].y >= m)

\* C23: the rectified image is outputWidth x outputHeight when the mean
\* height of the ordered corners exceeds their mean width and
\* outputHeight x outputWidth otherwise; a rectangle wider than tall gives
\* outputHeight x outputWidth (1050x750 for the target 750x1050), one taller
\* than wide outputWidth x outputHeight (750x1050).
C23_OrientationFromCorners ==
  libArgs.fn = "extractCard" =>
    LET P == libArgs.corners
        o == libArgs.options
        img == libResult.image
        left == SquaredLength(orderCorners(P).ordered[1], orderCorners(P).ordered[4])
        top == SquaredLength(orderCorners(P).ordered[1], orderCorners(P).ordered[2])
    IN /\ ~img.threw
       /\ left > top => (img.cols = o.outputWidth /\ img.rows = o.outputHeight)
       /\ left <= top => (img.cols = o.outputHeight /\ img.rows = o.outputWidth)
       /\ SpanX(P) > SpanY(P) =>
            (img.cols = o.outputHeight /\ img.rows = o.outputWidth)
       /\ SpanY(P) > SpanX(P) =>
            (img.cols = o.outputWidth /\ img.rows = o.outputHeight)
       /\ (SpanX(P) > SpanY(P) /\ o.outputWidth = 750 /\ o.outputHeight = 1050)
            => (img.cols = 1050 /\ img.rows = 750)

\* a rectangle 2 wide and 1 tall, corners out of order, target 750x1050
C23_Witness ==
  /\ libArgs.fn = "extractCard"
  /\ libArgs.corners = << [x |-> 2, y |-> 1], [x |-> 0, y |-> 0],
                          [x |-> 0, y |-> 1], [x |-> 2, y |-> 0] >>
  /\ libArgs.options.outputWidth = 750
  /\ libResult.image = [threw |-> FALSE, cols |-> 1050, rows |-> 750]

\* C24: every card handed to downloadAllCardsAsZip has its own entry
\* card_NNN.png: the names made for one archive are pairwise distinct and the
\* archive holds as many entries as cards were passed, also for the active
\* view of a batch that spans several source images.
C24_OneEntryPerCard ==
  (libArgs.fn = "downloadAllCardsAsZip" /\ ~libResult.alerted) =>
    LET cs == libArgs.cards
        zip == libResult.zip
    IN /\ \A i, j \in 1..Len(cs) : i # j => ZipFilename(cs[i]) # ZipFilename(cs[j])
       /\ Len(zip) = Len(cs)
       /\ \A i \in 1..Len(cs) :
            \E e \in 1..Len(zip) :
              zip[e] = [name |-> ZipFilename(cs[i]), data |-> cs[i].image]
====
